---- MODULE Spec2Model ----
(* miniqueue: the broker's consumer registry and wake-up scan               *)
(* (broker.go), the streaming subscribe handler (server.go), and the        *)
(* consumer / store contract the handler drives.                            *)
EXTENDS Integers, Sequences, FiniteSets, TLC

(* ---------------------------------------------------------------- bounds *)
(* MaxMsgs bounds the number of successful publishes; entries are numbered *)
(* 1, 2, ... in insert order.                                               *)
MaxMsgs == 2

(* Two topics, two subscribe connections (one consumer each), one publish  *)
(* request at a time.                                                       *)
Topics == {"t1", "t2"}
ConnIds == {1, 2}
PubIds == {1}
Msgs == 1..MaxMsgs
None == 0

(* ------------------------------------------------------ server.go names *)
CmdInit == "INIT"
CmdAck == "ACK"
CmdNack == "NACK"
CmdOther == "PING"
Cmds == {CmdInit, CmdAck, CmdNack, CmdOther}

errNextValue == "error getting next value for consumer"
errAck == "error ACKing message"
errNack == "error NACKing message"
errDecodingCmd == "error decoding command"
errUnrecognised == "unrecognised command received"
logCancelled == "client disconnected while waiting for message"

(* An error text is a sequence of fragments; <<>> is the nil error. *)
nil == <<>>
DecodeErrs ==
  { <<"client disconnected">>,
    <<"stream error: stream ID 1", "; CANCEL">>,
    <<"EOF">>,
    <<"invalid character 'x' looking for beginning of value">> }

Contains(err, frag) == \E i \in 1..Len(err) : err[i] = frag

isDisconnect(err) ==
  err # nil /\ (Contains(err, "client disconnected") \/ Contains(err, "; CANCEL"))

(* ---------------------------------------------------------------- state *)
VARIABLES
  queue,      \* store: topic -> entries in delivery order (claimed ones included)
  claimed,    \* store: entries currently marked claimed
  claimOf,    \* store: consumer -> the entry currently claimed for it (None if none)
  published,  \* number of entries inserted so far (entries are numbered in insert order)
  consumers,  \* broker.consumers: topic -> sequence of consumer ids
  topic,      \* consumer.topic ("" before the consumer exists)
  eventChan,  \* consumer.eventChan: the number of events buffered in the channel
  pc,         \* handler position: idle, read, next, park, wait, done
  cmd,        \* the command the current pass of the loop decoded ("" between passes)
  owed,       \* commands read (decoded or malformed) minus frames written
  lastFrame,  \* last frame written: [msg, error]
  log,        \* last line the handler logged at Info, Warn or Error level
  ppc,        \* publisher position: idle, scan
  ptopic,     \* topic of the publish in progress
  pidx,       \* index of the notification scan
  pres        \* result of the last Publish: none, ok, err

vars == <<queue, claimed, claimOf, published, consumers, topic, eventChan,
          pc, cmd, owed, lastFrame, log, ppc, ptopic, pidx, pres>>

storeVars == <<queue, claimed, claimOf, published>>
pubVars == <<ppc, ptopic, pidx, pres>>

NoFrame == [msg |-> None, error |-> ""]
MsgFrame(m) == [msg |-> m, error |-> ""]
ErrFrame(e) == [msg |-> None, error |-> e]

Init ==
  /\ queue = [t \in Topics |-> <<>>]
  /\ claimed = {}
  /\ claimOf = [h \in ConnIds |-> None]
  /\ published = 0
  /\ consumers = [t \in Topics |-> <<>>]
  /\ topic = [h \in ConnIds |-> ""]
  /\ eventChan = [h \in ConnIds |-> 0]
  /\ pc = [h \in ConnIds |-> "idle"]
  /\ cmd = [h \in ConnIds |-> ""]
  /\ owed = [h \in ConnIds |-> 0]
  /\ lastFrame = [h \in ConnIds |-> NoFrame]
  /\ log = [h \in ConnIds |-> ""]
  /\ ppc = [p \in PubIds |-> "idle"]
  /\ ptopic = [p \in PubIds |-> "t1"]
  /\ pidx = [p \in PubIds |-> 0]
  /\ pres = [p \in PubIds |-> "none"]

(* --------------------------------------------------------- helpers *)
Range(s) == {s[i] : i \in 1..Len(s)}

RECURSIVE Without(_, _)
Without(s, m) ==
  IF s = <<>> THEN <<>>
  ELSE IF Head(s) = m THEN Without(Tail(s), m)
  ELSE <<Head(s)>> \o Without(Tail(s), m)

TopicOf(h) == topic[h]

(* ------------------------------------------------- store contract *)
(* Insert: append to the topic's tail. *)
StoreInsert(q, t, m) == [q EXCEPT ![t] = Append(@, m)]

(* FetchNext: the oldest entry of the topic not currently claimed. *)
Unclaimed(t) == SelectSeq(queue[t], LAMBDA m : m \notin claimed)

FetchNextAny(t) == IF queue[t] = <<>> THEN None ELSE Head(queue[t])

FetchNext(t) == IF Unclaimed(t) = <<>> THEN None ELSE Head(Unclaimed(t))

(* Commit: remove the caller's claimed entry. *)
StoreCommit(q, t, m) == [q EXCEPT ![t] = Without(@, m)]

(* Requeue: move the caller's claimed entry to the head of the topic. *)
StoreRequeue(q, t, m) == [q EXCEPT ![t] = <<m>> \o Without(@, m)]

(* ------------------------------------------------- frames (server.go) *)
(* n is the number of frames the handler owes when it writes (or returns): *)
(* owed[h], plus one when this pass of the loop has read a command.        *)
respondError(h, e, n) ==
  /\ owed' = [owed EXCEPT ![h] = n - 1]
  /\ lastFrame' = [lastFrame EXCEPT ![h] = ErrFrame(e)]

respondMsg(h, m, n) ==
  /\ owed' = [owed EXCEPT ![h] = n - 1]
  /\ lastFrame' = [lastFrame EXCEPT ![h] = MsgFrame(m)]

Log(h, msg) == log' = [log EXCEPT ![h] = msg]

noFrame(h, n) ==
  /\ owed' = [owed EXCEPT ![h] = n]
  /\ UNCHANGED lastFrame

(* ------------------------------------------------------------ consumer *)
(* Ack and Nack fail when nothing is claimed for the consumer, or when the *)
(* store fails (ok = FALSE); a failed call changes nothing.                *)
AckFails(h, ok) == claimOf[h] = None \/ ~ok

NackFails(h, ok) == claimOf[h] = None \/ ~ok

Ack(h) ==
  /\ queue' = StoreCommit(queue, TopicOf(h), claimOf[h])
  /\ claimed' = claimed \ {claimOf[h]}
  /\ claimOf' = [claimOf EXCEPT ![h] = None]
  /\ UNCHANGED published

Nack(h) ==
  /\ queue' = StoreRequeue(queue, TopicOf(h), claimOf[h])
  /\ claimed' = claimed \ {claimOf[h]}
  /\ claimOf' = [claimOf EXCEPT ![h] = None]
  /\ UNCHANGED published

(* The wake signal is an unbuffered channel: a send is accepted only by a  *)
(* consumer parked in Next's wait.                                          *)
Awaiting(c) == pc[c] = "wait"

(* Next's receive finds an event already in the channel.                   *)
Buffered(c) == eventChan[c] > 0

(* ------------------------------------------------------- broker.go *)
SubscribeReplace(t, h) ==
  /\ topic' = [topic EXCEPT ![h] = t]
  /\ eventChan' = [eventChan EXCEPT ![h] = 0]
  /\ consumers' = [consumers EXCEPT ![t] = <<h>>]

Subscribe(t, h) ==
  /\ topic' = [topic EXCEPT ![h] = t]
  /\ eventChan' = [eventChan EXCEPT ![h] = 0]
  /\ consumers' = [consumers EXCEPT ![t] = Append(@, h)]

RLocked == \E p \in PubIds : ppc[p] = "scan"

SendAccepted(c) == Awaiting(c)

PublishReturn(p, res) ==
  /\ ppc' = [ppc EXCEPT ![p] = "idle"]
  /\ pidx' = [pidx EXCEPT ![p] = 0]
  /\ ptopic' = [ptopic EXCEPT ![p] = "t1"]
  /\ pres' = [pres EXCEPT ![p] = res]

PublishNotifyOnError(p, t, ok) ==
  /\ ppc[p] = "idle"
  /\ published < MaxMsgs
  /\ IF ~ok
       THEN /\ pres' = [pres EXCEPT ![p] = "err"]
            /\ ppc' = [ppc EXCEPT ![p] = "scan"]
            /\ ptopic' = [ptopic EXCEPT ![p] = t]
            /\ pidx' = [pidx EXCEPT ![p] = 1]
            /\ UNCHANGED storeVars
       ELSE /\ published' = published + 1
            /\ queue' = StoreInsert(queue, t, published + 1)
            /\ ppc' = [ppc EXCEPT ![p] = "scan"]
            /\ ptopic' = [ptopic EXCEPT ![p] = t]
            /\ pidx' = [pidx EXCEPT ![p] = 1]
            /\ pres' = [pres EXCEPT ![p] = "none"]
            /\ UNCHANGED <<claimed, claimOf>>
  /\ UNCHANGED <<consumers, topic, eventChan, pc, cmd, owed, lastFrame, log>>

Publish(p, t, ok) ==
  /\ ppc[p] = "idle"
  /\ published < MaxMsgs
  /\ IF ~ok
       THEN /\ pres' = [pres EXCEPT ![p] = "err"]
            /\ UNCHANGED <<ppc, ptopic, pidx, storeVars>>
       ELSE /\ published' = published + 1
            /\ queue' = StoreInsert(queue, t, published + 1)
            /\ ppc' = [ppc EXCEPT ![p] = "scan"]
            /\ ptopic' = [ptopic EXCEPT ![p] = t]
            /\ pidx' = [pidx EXCEPT ![p] = 1]
            /\ pres' = [pres EXCEPT ![p] = "none"]
            /\ UNCHANGED <<claimed, claimOf>>
  /\ UNCHANGED <<consumers, topic, eventChan, pc, cmd, owed, lastFrame, log>>

NotifyConsumerBlocking(p) ==
  /\ ppc[p] = "scan"
  /\ LET cs == consumers[ptopic[p]] IN
       IF pidx[p] > Len(cs)
         THEN PublishReturn(p, "ok") /\ UNCHANGED pc
         ELSE /\ SendAccepted(cs[pidx[p]])
              /\ pc' = [pc EXCEPT ![cs[pidx[p]]] = "next"]
              /\ PublishReturn(p, "ok")
  /\ UNCHANGED <<storeVars, consumers, topic, eventChan, cmd, owed, lastFrame, log>>

NotifyConsumerNoReturn(p) ==
  /\ ppc[p] = "scan"
  /\ LET cs == consumers[ptopic[p]] IN
       IF pidx[p] > Len(cs)
         THEN PublishReturn(p, "ok") /\ UNCHANGED pc
         ELSE /\ pc' = IF SendAccepted(cs[pidx[p]])
                         THEN [pc EXCEPT ![cs[pidx[p]]] = "next"]
                         ELSE pc
              /\ pidx' = [pidx EXCEPT ![p] = @ + 1]
              /\ UNCHANGED <<ppc, ptopic, pres>>
  /\ UNCHANGED <<storeVars, consumers, topic, eventChan, cmd, owed, lastFrame, log>>

NotifyConsumerBuffered(p) ==
  /\ ppc[p] = "scan"
  /\ LET cs == consumers[ptopic[p]] IN
       IF pidx[p] > Len(cs)
         THEN PublishReturn(p, "ok") /\ UNCHANGED <<pc, eventChan>>
         ELSE IF SendAccepted(cs[pidx[p]])
           THEN /\ pc' = [pc EXCEPT ![cs[pidx[p]]] = "next"]
                /\ PublishReturn(p, "ok")
                /\ UNCHANGED eventChan
           ELSE IF eventChan[cs[pidx[p]]] = 0
             THEN /\ eventChan' = [eventChan EXCEPT ![cs[pidx[p]]] = 1]
                  /\ PublishReturn(p, "ok")
                  /\ UNCHANGED pc
             ELSE /\ pidx' = [pidx EXCEPT ![p] = @ + 1]
                  /\ UNCHANGED <<pc, ppc, ptopic, pres, eventChan>>
  /\ UNCHANGED <<storeVars, consumers, topic, cmd, owed, lastFrame, log>>

NotifyConsumerRetry(p) ==
  /\ ppc[p] = "scan"
  /\ LET cs == consumers[ptopic[p]] IN
       IF pidx[p] > Len(cs)
         THEN PublishReturn(p, "ok") /\ UNCHANGED pc
         ELSE IF SendAccepted(cs[pidx[p]])
           THEN /\ pc' = [pc EXCEPT ![cs[pidx[p]]] = "next"]
                /\ PublishReturn(p, "ok")
           ELSE UNCHANGED <<pc, ppc, ptopic, pidx, pres>>
  /\ UNCHANGED <<storeVars, consumers, topic, eventChan, cmd, owed, lastFrame, log>>

NotifyConsumer(p) ==
  /\ ppc[p] = "scan"
  /\ LET cs == consumers[ptopic[p]] IN
       IF pidx[p] > Len(cs)
         THEN PublishReturn(p, "ok") /\ UNCHANGED pc
         ELSE IF SendAccepted(cs[pidx[p]])
           THEN /\ pc' = [pc EXCEPT ![cs[pidx[p]]] = "next"]
                /\ PublishReturn(p, "ok")
           ELSE /\ pidx' = [pidx EXCEPT ![p] = @ + 1]
                /\ UNCHANGED <<pc, ppc, ptopic, pres>>
  /\ UNCHANGED <<storeVars, consumers, topic, eventChan, cmd, owed, lastFrame, log>>

(* ------------------------------------------------ server.go: subscribe *)
HandlerStart(h, t) ==
  /\ pc[h] = "idle"
  /\ ~RLocked
  /\ Subscribe(t, h)
  /\ pc' = [pc EXCEPT ![h] = "read"]
  /\ Log(h, "subscribing to topic")
  /\ UNCHANGED <<storeVars, cmd, owed, lastFrame, pubVars>>

Finish(h) == pc' = [pc EXCEPT ![h] = "done"]

OnDisconnectCommit(h, ok) ==
  /\ IF AckFails(h, ok)
       THEN Log(h, "failed to nack") /\ UNCHANGED storeVars
       ELSE Log(h, "client disconnected") /\ Ack(h)
  /\ noFrame(h, owed[h])
  /\ Finish(h)

OnDisconnect(h, ok) ==
  /\ IF NackFails(h, ok)
       THEN Log(h, "failed to nack") /\ UNCHANGED storeVars
       ELSE Log(h, "client disconnected") /\ Nack(h)
  /\ noFrame(h, owed[h])
  /\ Finish(h)

OnDecodeErrorContinue(h) ==
  /\ Log(h, "failed decoding command")
  /\ respondError(h, errDecodingCmd, owed[h] + 1)
  /\ UNCHANGED <<pc, storeVars>>

OnDecodeError(h) ==
  /\ Log(h, "failed decoding command")
  /\ respondError(h, errDecodingCmd, owed[h] + 1)
  /\ Finish(h)
  /\ UNCHANGED storeVars

OnInit(h) ==
  /\ pc' = [pc EXCEPT ![h] = "next"]
  /\ noFrame(h, owed[h] + 1)
  /\ UNCHANGED <<storeVars, log>>

OnAckRequeue(h, ok) ==
  IF NackFails(h, ok)
    THEN /\ Log(h, "failed to ACK")
         /\ respondError(h, errAck, owed[h] + 1)
         /\ Finish(h)
         /\ UNCHANGED storeVars
    ELSE /\ Nack(h)
         /\ pc' = [pc EXCEPT ![h] = "next"]
         /\ noFrame(h, owed[h] + 1)
         /\ UNCHANGED log

OnAckIgnoreError(h, ok) ==
  /\ IF AckFails(h, ok) THEN UNCHANGED storeVars ELSE Ack(h)
  /\ pc' = [pc EXCEPT ![h] = "next"]
  /\ noFrame(h, owed[h] + 1)
  /\ UNCHANGED log

OnAck(h, ok) ==
  IF AckFails(h, ok)
    THEN /\ Log(h, "failed to ACK")
         /\ respondError(h, errAck, owed[h] + 1)
         /\ Finish(h)
         /\ UNCHANGED storeVars
    ELSE /\ Ack(h)
         /\ pc' = [pc EXCEPT ![h] = "next"]
         /\ noFrame(h, owed[h] + 1)
         /\ UNCHANGED log

OnNackCommit(h, ok) ==
  IF AckFails(h, ok)
    THEN /\ Log(h, "failed to NACK")
         /\ respondError(h, errNack, owed[h] + 1)
         /\ Finish(h)
         /\ UNCHANGED storeVars
    ELSE /\ Ack(h)
         /\ pc' = [pc EXCEPT ![h] = "next"]
         /\ noFrame(h, owed[h] + 1)
         /\ UNCHANGED log

OnNack(h, ok) ==
  IF NackFails(h, ok)
    THEN /\ Log(h, "failed to NACK")
         /\ respondError(h, errNack, owed[h] + 1)
         /\ Finish(h)
         /\ UNCHANGED storeVars
    ELSE /\ Nack(h)
         /\ pc' = [pc EXCEPT ![h] = "next"]
         /\ noFrame(h, owed[h] + 1)
         /\ UNCHANGED log

OnOtherSilent(h) ==
  /\ Log(h, "unrecognised command received")
  /\ noFrame(h, owed[h] + 1)
  /\ UNCHANGED <<pc, storeVars>>

OnOtherFatal(h) ==
  /\ Log(h, "unrecognised command received")
  /\ respondError(h, errUnrecognised, owed[h] + 1)
  /\ Finish(h)
  /\ UNCHANGED storeVars

OnOther(h) ==
  /\ Log(h, "unrecognised command received")
  /\ respondError(h, errUnrecognised, owed[h] + 1)
  /\ UNCHANGED <<pc, storeVars>>

(* One pass of the loop up to the call of Next: dec.Decode and the switch. *)
Decode(h, c, err, ok) ==
  /\ pc[h] = "read"
  /\ IF isDisconnect(err) THEN OnDisconnect(h, ok) /\ UNCHANGED cmd
     ELSE IF err # nil THEN OnDecodeError(h) /\ UNCHANGED cmd
     ELSE CASE c = CmdInit -> OnInit(h) /\ cmd' = [cmd EXCEPT ![h] = c]
            [] c = CmdAck -> OnAck(h, ok) /\ cmd' = [cmd EXCEPT ![h] = c]
            [] c = CmdNack -> OnNack(h, ok) /\ cmd' = [cmd EXCEPT ![h] = c]
            [] OTHER -> OnOther(h) /\ UNCHANGED cmd
  /\ UNCHANGED <<consumers, topic, eventChan, pubVars>>

NextFetchErrContinues(h, ok) ==
  /\ pc[h] = "next"
  /\ LET m == FetchNext(TopicOf(h)) IN
       IF ~ok
         THEN /\ Log(h, "failed to get next value for topic")
              /\ respondError(h, errNextValue, owed[h])
              /\ pc' = [pc EXCEPT ![h] = "read"]
              /\ cmd' = [cmd EXCEPT ![h] = ""]
              /\ UNCHANGED storeVars
         ELSE IF m = None
           THEN /\ pc' = [pc EXCEPT ![h] = "park"]
                /\ UNCHANGED <<owed, lastFrame, log, storeVars, cmd>>
           ELSE /\ claimed' = claimed \cup {m}
                /\ claimOf' = [claimOf EXCEPT ![h] = m]
                /\ respondMsg(h, m, owed[h])
                /\ pc' = [pc EXCEPT ![h] = "read"]
                /\ cmd' = [cmd EXCEPT ![h] = ""]
                /\ UNCHANGED <<queue, published, log>>
  /\ UNCHANGED <<consumers, topic, eventChan, pubVars>>

(* cons.Next: the store fetch and what the handler does with its result. *)
NextFetch(h, ok) ==
  /\ pc[h] = "next"
  /\ LET m == FetchNext(TopicOf(h)) IN
       IF ~ok
         THEN /\ Log(h, "failed to get next value for topic")
              /\ respondError(h, errNextValue, owed[h])
              /\ Finish(h)
              /\ UNCHANGED <<storeVars, cmd>>
         ELSE IF m = None
           THEN /\ pc' = [pc EXCEPT ![h] = "park"]
                /\ UNCHANGED <<owed, lastFrame, log, storeVars, cmd>>
           ELSE /\ claimed' = claimed \cup {m}
                /\ claimOf' = [claimOf EXCEPT ![h] = m]
                /\ respondMsg(h, m, owed[h])
                /\ pc' = [pc EXCEPT ![h] = "read"]
                /\ cmd' = [cmd EXCEPT ![h] = ""]
                /\ UNCHANGED <<queue, published, log>>
  /\ UNCHANGED <<consumers, topic, eventChan, pubVars>>

(* cons.Next: the topic was empty, start awaiting the wake signal. *)
NextPark(h) ==
  /\ pc[h] = "park"
  /\ IF Buffered(h)
       THEN /\ eventChan' = [eventChan EXCEPT ![h] = @ - 1]
            /\ pc' = [pc EXCEPT ![h] = "next"]
       ELSE /\ pc' = [pc EXCEPT ![h] = "wait"]
            /\ UNCHANGED eventChan
  /\ UNCHANGED <<storeVars, consumers, topic, cmd, owed, lastFrame, log, pubVars>>

(* cons.Next returns errRequestCancelled: the request context is cancelled *)
(* while Next is awaiting the wake signal.                                  *)
NextReturnsCancelled(h) == pc[h] = "wait"

NextCancelledAck(h) ==
  /\ NextReturnsCancelled(h)
  /\ Finish(h)
  /\ Log(h, logCancelled)
  /\ IF claimOf[h] = None THEN UNCHANGED storeVars ELSE Ack(h)
  /\ UNCHANGED <<consumers, topic, eventChan, cmd, owed, lastFrame, pubVars>>

(* The handler's errRequestCancelled case: log and return, no frame.       *)
NextCancelled(h) ==
  /\ NextReturnsCancelled(h)
  /\ Finish(h)
  /\ Log(h, logCancelled)
  /\ UNCHANGED <<storeVars, consumers, topic, eventChan, cmd, owed, lastFrame, pubVars>>

Next ==
  \/ \E h \in ConnIds, t \in Topics : HandlerStart(h, t)
  \/ \E h \in ConnIds, c \in Cmds, ok \in BOOLEAN : Decode(h, c, nil, ok)
  \/ \E h \in ConnIds, err \in DecodeErrs, ok \in BOOLEAN : Decode(h, "", err, ok)
  \/ \E h \in ConnIds, ok \in BOOLEAN : NextFetch(h, ok)
  \/ \E h \in ConnIds : NextPark(h)
  \/ \E h \in ConnIds : NextCancelled(h)
  \/ \E p \in PubIds, t \in Topics, ok \in BOOLEAN : Publish(p, t, ok)
  \/ \E p \in PubIds : NotifyConsumer(p)

Spec == Init /\ [][Next]_vars

(* The goroutines that are running are scheduled fairly: a notification    *)
(* scan in progress and a handler inside Next take their steps. Client     *)
(* input (connecting, commands, disconnects, cancellation, publishing) is  *)
(* under no obligation to happen.                                           *)
Fairness ==
  /\ \A p \in PubIds : WF_vars(NotifyConsumer(p))
  /\ \A h \in ConnIds : WF_vars(NextPark(h))
  /\ \A h \in ConnIds : WF_vars(\E ok \in BOOLEAN : NextFetch(h, ok))

FairSpec == Spec /\ Fairness

TypeOK ==
  /\ published \in 0..MaxMsgs
  /\ \A t \in Topics : Range(queue[t]) \subseteq 1..published
  /\ claimed \subseteq 1..published
  /\ \A h \in ConnIds : claimOf[h] \in Msgs \cup {None}
  /\ \A h \in ConnIds : pc[h] \in {"idle", "read", "next", "park", "wait", "done"}

(* ================================================================ claims *)
TopicEntries(t) == Range(queue[t])

(* The step in which handler h ends on a read failure classified as a      *)
(* client disconnect (server.go:160-167).                                   *)
DisconnectStep(h) ==
  /\ pc[h] = "read"
  /\ pc'[h] = "done"
  /\ log'[h] \in {"client disconnected", "failed to nack"}

(* C1: a disconnect while a message x is in flight never commits x; unless *)
(* the implicit Nack fails in the store, x is unclaimed and back at the    *)
(* head of its topic, so the next fetch on the topic returns x, and no     *)
(* frame is written.                                                        *)
C1_DisconnectImpliesNack ==
  [][\A h \in ConnIds :
       (DisconnectStep(h) /\ claimOf[h] # None) =>
         LET x == claimOf[h]
             t == TopicOf(h)
         IN /\ x \in Range(queue'[t])
            /\ lastFrame'[h] = lastFrame[h]
            /\ log'[h] = "client disconnected" =>
                 /\ claimOf'[h] = None
                 /\ x \notin claimed'
                 /\ queue'[t] # <<>>
                 /\ Head(queue'[t]) = x
                 /\ FetchNext(t)' = x]_vars

(* A handler received x, disconnected, and a fresh subscription holds x.   *)
C1_Witness ==
  \E h, g \in ConnIds :
    /\ h # g
    /\ pc[h] = "done"
    /\ log[h] = "client disconnected"
    /\ lastFrame[h].msg # None
    /\ claimOf[g] = lastFrame[h].msg
    /\ lastFrame[g] = MsgFrame(lastFrame[h].msg)

(* C2: no entry is held by two consumers at once: the entries claimed for  *)
(* two different consumers are different, and each is a marked entry of    *)
(* the consumer's topic.                                                    *)
C2_AtMostOneClaim ==
  \A h, g \in ConnIds :
    claimOf[h] # None =>
      /\ claimOf[h] \in claimed
      /\ claimOf[h] \in TopicEntries(TopicOf(h))
      /\ (g # h => claimOf[g] # claimOf[h])

(* Two consumers of one topic hold an entry each at the same time.         *)
C2_Witness ==
  \E h, g \in ConnIds :
    /\ h # g
    /\ claimOf[h] # None
    /\ claimOf[g] # None
    /\ TopicOf(h) = TopicOf(g)

IsSorted(q) == \A i, j \in 1..Len(q) : i < j => q[i] < q[j]

ClaimedOn(t) == TopicEntries(t) \cap claimed

(* The step in which handler h decodes NACK and its Nack succeeds          *)
(* (server.go:229-239).                                                     *)
NackStep(h) ==
  /\ pc[h] = "read"
  /\ cmd'[h] = CmdNack
  /\ pc'[h] = "next"

(* The step in which Next returns an entry to handler h.                   *)
FetchStep(h) ==
  /\ pc[h] = "next"
  /\ pc'[h] = "read"

AckStep(h) ==
  /\ pc[h] = "read"
  /\ cmd'[h] = CmdAck
  /\ pc'[h] = "next"

(* The step in which Next returns the cancellation condition to handler h. *)
CancelStep(h) ==
  /\ pc[h] = "wait"
  /\ pc'[h] = "done"

(* The only subscription ever made to its topic, with no entry of the      *)
(* topic held.                                                              *)
SoleIdle(h) ==
  /\ consumers[TopicOf(h)] = <<h>>
  /\ ClaimedOn(TopicOf(h)) = {}

(* C4: an ACK first commits the message in flight (it leaves the topic and *)
(* nothing else changes in the queue) and then calls Next; for a single    *)
(* subscription Next then returns, in a message frame, the oldest entry    *)
(* left in publish order; a waiting Next is left only by a wake of a       *)
(* publish to the topic or, when the context is cancelled, by returning    *)
(* the cancellation condition with no frame written.                       *)
C4_OrderedDeliveryUnderAck ==
  [][\A h \in ConnIds :
       LET t == TopicOf(h) IN
       /\ AckStep(h) =>
            /\ claimOf[h] # None
            /\ claimOf'[h] = None
            /\ queue' = StoreCommit(queue, t, claimOf[h])
            /\ claimOf[h] \notin Range(queue'[t])
            /\ lastFrame'[h] = lastFrame[h]
       /\ (FetchStep(h) /\ SoleIdle(h)) =>
            /\ IsSorted(queue[t])
            /\ claimOf'[h] = Head(queue[t])
            /\ lastFrame'[h] = MsgFrame(Head(queue[t]))
            /\ owed'[h] = owed[h] - 1
       /\ (pc[h] = "next" /\ pc'[h] = "park") => Unclaimed(t) = <<>>
       /\ (pc[h] = "wait" /\ pc'[h] # "wait") =>
            \/ /\ CancelStep(h)
               /\ log'[h] = logCancelled
               /\ lastFrame'[h] = lastFrame[h]
               /\ owed'[h] = owed[h]
            \/ /\ pc'[h] = "next"
               /\ \E p \in PubIds : ppc[p] = "scan" /\ ptopic[p] = t]_vars

(* publish a, b; INIT -> a; ACK -> b; ACK -> blocks until cancelled: the   *)
(* only subscription has committed both entries and ended silently.        *)
C4_Witness ==
  \E h \in ConnIds :
    /\ pc[h] = "done"
    /\ log[h] = logCancelled
    /\ cmd[h] = CmdAck
    /\ lastFrame[h] = MsgFrame(2)
    /\ owed[h] = 1
    /\ published = 2
    /\ consumers[TopicOf(h)] = <<h>>
    /\ \A t \in Topics : queue[t] = <<>>
    /\ \A t \in Topics \ {TopicOf(h)} : consumers[t] = <<>>

(* The step in which handler h decodes ACK or NACK.                        *)
AckOrNackRead(h) ==
  /\ pc[h] = "read"
  /\ \/ cmd'[h] \in {CmdAck, CmdNack}
     \/ log'[h] \in {"failed to ACK", "failed to NACK"}

(* C5: Ack or Nack with no message claimed for the consumer is an error:   *)
(* the handler writes the Ack (Nack) error frame and ends, calls no Next,  *)
(* and the store (queues, marks, every consumer's claim) is unchanged; the *)
(* implicit Nack of a disconnect with nothing claimed fails the same way.  *)
C5_NoClaimIsError ==
  [][\A h \in ConnIds :
       claimOf[h] = None =>
         /\ AckOrNackRead(h) =>
              /\ pc'[h] = "done"
              /\ lastFrame'[h] \in {ErrFrame(errAck), ErrFrame(errNack)}
              /\ log'[h] \in {"failed to ACK", "failed to NACK"}
              /\ UNCHANGED storeVars
         /\ DisconnectStep(h) =>
              /\ log'[h] = "failed to nack"
              /\ UNCHANGED storeVars]_vars

(* An ACK out of turn ended a handler with the Ack error frame while       *)
(* another consumer of the topic kept its claim.                           *)
C5_Witness ==
  \E h, g \in ConnIds :
    /\ h # g
    /\ pc[h] = "done"
    /\ log[h] = "failed to ACK"
    /\ lastFrame[h] = ErrFrame(errAck)
    /\ claimOf[h] = None
    /\ claimOf[g] # None
    /\ TopicOf(g) = TopicOf(h)

(* C6: a Next that returns the cancellation condition was waiting; it      *)
(* claims nothing and changes nothing in the store, so every unclaimed     *)
(* entry of the topic is still what a fetch returns.                       *)
C6_CancelLosesNothing ==
  [][\A h \in ConnIds :
       CancelStep(h) =>
         /\ UNCHANGED storeVars
         /\ Unclaimed(TopicOf(h))' = Unclaimed(TopicOf(h))
         /\ FetchNext(TopicOf(h))' = FetchNext(TopicOf(h))]_vars

(* A Next was cancelled while waiting and never held anything; an entry of *)
(* the topic went to a later Next of another consumer.                     *)
C6_Witness ==
  \E h, g \in ConnIds :
    /\ h # g
    /\ pc[h] = "done"
    /\ log[h] = logCancelled
    /\ cmd[h] = CmdInit
    /\ lastFrame[h] = NoFrame
    /\ claimOf[h] = None
    /\ claimOf[g] # None
    /\ TopicOf(g) = TopicOf(h)

(* The step in which Publish's Insert succeeds, and the one in which the   *)
(* notification scan ends and Publish returns.                              *)
InsertStep(p) == ppc[p] = "idle" /\ ppc'[p] = "scan"

ReturnStep(p) == ppc[p] = "scan" /\ ppc'[p] = "idle"

Woken(c) == pc[c] = "wait" /\ pc'[c] = "next"

(* C7: the notification scan never waits for a consumer (a step of it is   *)
(* always possible); a successful Insert leaves the payload unclaimed at   *)
(* the tail of the topic; when no consumer is woken the scan changes no    *)
(* handler and Publish returns success with the store untouched; an entry  *)
(* leaves a queue only by the Ack of the consumer holding it; and a Next   *)
(* on a topic with an unclaimed entry does not start waiting.              *)
C7_NotificationIsAHint ==
  /\ [](\A p \in PubIds : ppc[p] = "scan" => ENABLED NotifyConsumer(p))
  /\ [][\A p \in PubIds, t \in Topics, h \in ConnIds :
          /\ InsertStep(p) =>
               /\ published' = published + 1
               /\ queue' = StoreInsert(queue, ptopic'[p], published')
               /\ published' \notin claimed'
          /\ ReturnStep(p) =>
               /\ pres'[p] = "ok"
               /\ UNCHANGED storeVars
               /\ (\A c \in ConnIds : ~Awaiting(c)) => pc' = pc
          /\ \A m \in Range(queue[t]) \ Range(queue'[t]) :
               \E g \in ConnIds : AckStep(g) /\ claimOf[g] = m
          /\ (pc[h] = "next" /\ pc'[h] = "park") => Unclaimed(TopicOf(h)) = <<>>]_vars

(* The scan has passed every registered consumer of the topic, none was    *)
(* awaiting, and the published entry is in the queue, unclaimed.           *)
C7_Witness ==
  \E p \in PubIds :
    /\ ppc[p] = "scan"
    /\ Len(consumers[ptopic[p]]) >= 1
    /\ pidx[p] > Len(consumers[ptopic[p]])
    /\ \A c \in ConnIds : ~Awaiting(c)
    /\ published \in Range(Unclaimed(ptopic[p]))

(* C8: a Publish whose Insert fails returns the error at once: no          *)
(* notification scan starts, nothing is inserted, no consumer is woken;    *)
(* a scan only ever runs for a Publish whose Insert succeeded.             *)
C8_PublishFailsFast ==
  /\ [](\A p \in PubIds : ppc[p] = "scan" => pres[p] = "none")
  /\ [][\A p \in PubIds :
          (pres[p] # "err" /\ pres'[p] = "err") =>
            /\ ppc[p] = "idle"
            /\ ppc'[p] = "idle"
            /\ UNCHANGED <<storeVars, pc, consumers>>]_vars

(* A Publish failed while a consumer was awaiting its wake signal: the     *)
(* consumer is still waiting and nothing was inserted.                     *)
C8_Witness ==
  \E p \in PubIds, c \in ConnIds :
    /\ pres[p] = "err"
    /\ ppc[p] = "idle"
    /\ Awaiting(c)
    /\ published = 0

(* The scan of publisher p is trying, or has passed, position i.           *)
ScanAt(p) == consumers[ptopic[p]][pidx[p]]

(* C9 as stated: the consumer a Publish wakes is the earliest-registered   *)
(* consumer of the topic that is awaiting its wake signal at that moment.  *)
C9_WokenIsEarliestAwaiting ==
  [][\A c \in ConnIds :
       Woken(c) =>
         \A i \in 1..Len(consumers[TopicOf(c)]) :
           Awaiting(consumers[TopicOf(c)][i]) =>
             \A j \in 1..Len(consumers[TopicOf(c)]) :
               consumers[TopicOf(c)][j] = c => i >= j]_vars

(* C9, amended: a consumer is woken only by the scan of a Publish to its   *)
(* own topic standing at that consumer, which was awaiting; the send ends  *)
(* the scan (Publish returns success), so a Publish wakes at most one      *)
(* consumer; the scan moves on by one position, in registration order,     *)
(* only past a consumer that is not awaiting when it is tried.             *)
C9_ScanWakesFirstAccepting ==
  [][/\ \A c \in ConnIds :
          Woken(c) =>
            /\ \E p \in PubIds :
                 /\ ppc[p] = "scan"
                 /\ ptopic[p] = TopicOf(c)
                 /\ pidx[p] <= Len(consumers[ptopic[p]])
                 /\ ScanAt(p) = c
                 /\ ReturnStep(p)
                 /\ pres'[p] = "ok"
            /\ Awaiting(c)
            /\ \A d \in ConnIds \ {c} : pc'[d] = pc[d]
     /\ \A p \in PubIds :
          (ppc[p] = "scan" /\ ppc'[p] = "scan") =>
            \/ pidx'[p] = pidx[p]
            \/ /\ pidx'[p] = pidx[p] + 1
               /\ pidx[p] <= Len(consumers[ptopic[p]])
               /\ ~Awaiting(ScanAt(p))
               /\ pc' = pc
     /\ \A p \in PubIds :
          (ReturnStep(p) /\ pc' = pc) => pidx[p] > Len(consumers[ptopic[p]])]_vars

(* The scan skipped the first registered consumer, which was not awaiting, *)
(* and stands at the second, which is.                                     *)
C9_Witness ==
  \E p \in PubIds :
    /\ ppc[p] = "scan"
    /\ pidx[p] = 2
    /\ Len(consumers[ptopic[p]]) >= 2
    /\ Awaiting(ScanAt(p))
    /\ pc[consumers[ptopic[p]][1]] = "read"

(* C10 as stated: every command read has got exactly one frame whenever    *)
(* the handler is about to read or has ended.                              *)
C10_OneFramePerCommand ==
  \A h \in ConnIds : pc[h] \in {"read", "done"} => owed[h] = 0

(* C10, amended: one frame per command read, except that a command whose   *)
(* Next returns the cancellation condition gets none; while Next runs the  *)
(* frame of the current command is the only one outstanding; a disconnect  *)
(* writes nothing.                                                          *)
C10_OneFrameUnlessCancelled ==
  \A h \in ConnIds :
    /\ pc[h] \in {"idle", "read"} => owed[h] = 0
    /\ pc[h] \in {"next", "park", "wait"} => owed[h] = 1
    /\ pc[h] = "done" => owed[h] = (IF log[h] = logCancelled THEN 1 ELSE 0)

(* A handler answered a command with a message frame, then ended on a      *)
(* cancelled Next without a frame for its last command.                    *)
C10_Witness ==
  \E h \in ConnIds :
    /\ pc[h] = "done"
    /\ log[h] = logCancelled
    /\ lastFrame[h].msg # None
    /\ owed[h] = 1

(* C11: an unrecognised command is non-fatal: the handler writes the       *)
(* "unrecognised command" error frame for it, calls none of Next, Ack and  *)
(* Nack (the store, the claims and the registry are unchanged, no wait      *)
(* starts) and goes on to read the next command.                            *)
C11_UnrecognisedIsNonFatal ==
  [][\A h \in ConnIds, ok \in BOOLEAN :
       Decode(h, CmdOther, nil, ok) =>
         /\ pc'[h] = "read"
         /\ lastFrame'[h] = ErrFrame(errUnrecognised)
         /\ log'[h] = "unrecognised command received"
         /\ owed'[h] = owed[h]
         /\ UNCHANGED <<storeVars, consumers, topic>>
         /\ \A g \in ConnIds \ {h} : pc'[g] = pc[g]]_vars

(* A handler holding a message has just answered an unrecognised command   *)
(* with the error frame and is reading the next command, its claim kept.   *)
C11_Witness ==
  \E h \in ConnIds :
    /\ pc[h] = "read"
    /\ log[h] = "unrecognised command received"
    /\ lastFrame[h] = ErrFrame(errUnrecognised)
    /\ owed[h] = 0
    /\ claimOf[h] # None
    /\ claimOf[h] \in claimed

(* The step in which handler h fails to decode a command and the failure   *)
(* is not classified as a client disconnect (server.go:168-173).            *)
DecodeErrorStep(h) ==
  \E err \in DecodeErrs, ok \in BOOLEAN :
    ~isDisconnect(err) /\ Decode(h, "", err, ok)

(* C12 as stated: after a decode failure that is not a disconnect the       *)
(* handler goes on to read the next command.                                *)
C12_MalformedIsNonFatal ==
  [][\A h \in ConnIds : DecodeErrorStep(h) => pc'[h] = "read"]_vars

(* C12, amended: a decode failure that is not a disconnect is reported     *)
(* once, with the "error decoding command" frame, and ends the loop: the   *)
(* handler reads and writes nothing more on that connection.                *)
C12_MalformedIsFatal ==
  [][\A h \in ConnIds :
       /\ DecodeErrorStep(h) =>
            /\ pc'[h] = "done"
            /\ lastFrame'[h] = ErrFrame(errDecodingCmd)
            /\ log'[h] = "failed decoding command"
            /\ owed'[h] = owed[h]
       /\ pc[h] = "done" =>
            /\ pc'[h] = "done"
            /\ lastFrame'[h] = lastFrame[h]
            /\ owed'[h] = owed[h]]_vars

(* A handler that had delivered a message ended on a malformed command     *)
(* (for one, the end of the request body) with the decoding error frame.   *)
C12_Witness ==
  \E h \in ConnIds :
    /\ pc[h] = "done"
    /\ log[h] = "failed decoding command"
    /\ lastFrame[h] = ErrFrame(errDecodingCmd)
    /\ owed[h] = 0
    /\ claimOf[h] # None

(* C13: a failed Ack, Nack or Next (other than cancellation) is fatal: the *)
(* handler writes the one error frame of that failure and ends, a failed   *)
(* Ack or Nack is followed by no Next (nothing is fetched or claimed) and  *)
(* by no message frame; a cancelled Next ends the loop with no frame; an   *)
(* ended handler calls and writes nothing more.                             *)
C13_FailuresAreFatal ==
  [][\A h \in ConnIds, ok \in BOOLEAN :
       /\ (Decode(h, CmdAck, nil, ok) /\ AckFails(h, ok)) =>
            /\ pc'[h] = "done"
            /\ lastFrame'[h] = ErrFrame(errAck)
            /\ owed'[h] = owed[h]
            /\ UNCHANGED storeVars
       /\ (Decode(h, CmdNack, nil, ok) /\ NackFails(h, ok)) =>
            /\ pc'[h] = "done"
            /\ lastFrame'[h] = ErrFrame(errNack)
            /\ owed'[h] = owed[h]
            /\ UNCHANGED storeVars
       /\ NextFetch(h, FALSE) =>
            /\ pc'[h] = "done"
            /\ lastFrame'[h] = ErrFrame(errNextValue)
            /\ owed'[h] = owed[h] - 1
            /\ UNCHANGED storeVars
       /\ NextCancelled(h) =>
            /\ pc'[h] = "done"
            /\ lastFrame'[h] = lastFrame[h]
            /\ owed'[h] = owed[h]
            /\ UNCHANGED storeVars
       /\ pc[h] = "done" =>
            /\ pc'[h] = "done"
            /\ lastFrame'[h] = lastFrame[h]
            /\ claimOf'[h] = claimOf[h]]_vars

(* A NACK succeeded, the Next after it failed in the store, and the        *)
(* handler ended with the next-value error frame as its only answer.       *)
C13_Witness ==
  \E h \in ConnIds :
    /\ pc[h] = "done"
    /\ cmd[h] = CmdNack
    /\ log[h] = "failed to get next value for topic"
    /\ lastFrame[h] = ErrFrame(errNextValue)
    /\ owed[h] = 0
    /\ claimOf[h] = None

IsPrefix(s, t) == Len(s) <= Len(t) /\ \A i \in 1..Len(s) : s[i] = t[i]

(* C14: a topic's consumer sequence only grows: every step leaves each     *)
(* sequence a prefix of what it becomes (nothing is removed or reordered,  *)
(* also when a handler ends); a registration appends exactly the new       *)
(* consumer, bound to that topic, at the end of that topic's sequence and  *)
(* touches no other topic; Subscribe cannot fail, it only waits for the    *)
(* registry lock; a consumer is registered once, on the topic it is bound  *)
(* to.                                                                      *)
C14_RegistryMonotonic ==
  /\ [][\A t \in Topics : IsPrefix(consumers[t], consumers'[t])]_vars
  /\ [][\A h \in ConnIds, t \in Topics :
          HandlerStart(h, t) =>
            /\ consumers'[t] = Append(consumers[t], h)
            /\ topic'[h] = t
            /\ \A u \in Topics \ {t} : consumers'[u] = consumers[u]
            /\ \A g \in ConnIds \ {h} : topic'[g] = topic[g]]_vars
  /\ [](\A h \in ConnIds, t \in Topics :
          (pc[h] = "idle" /\ ~RLocked) => ENABLED HandlerStart(h, t))
  /\ [](\A h \in ConnIds, t \in Topics :
          Cardinality({i \in 1..Len(consumers[t]) : consumers[t][i] = h})
            = (IF pc[h] # "idle" /\ topic[h] = t THEN 1 ELSE 0))

(* Two consumers are registered on one topic, the handler of the first has *)
(* ended, and the first is still first in the sequence.                    *)
C14_Witness ==
  \E t \in Topics :
    /\ Len(consumers[t]) = 2
    /\ pc[consumers[t][1]] = "done"
    /\ pc[consumers[t][2]] = "read"

(* The step in which handler h calls the consumer's Ack or Nack: an ACK or *)
(* NACK command (server.go:203, 232) or a read failure classified as a     *)
(* client disconnect (server.go:163).                                       *)
CallsAckOrNack(h) ==
  \E ok \in BOOLEAN :
    \/ Decode(h, CmdAck, nil, ok)
    \/ Decode(h, CmdNack, nil, ok)
    \/ \E err \in DecodeErrs : isDisconnect(err) /\ Decode(h, "", err, ok)

(* C15: the handler calls the consumer's Ack or Nack only while a message  *)
(* is claimed for that consumer.                                            *)
C15_NeverOutOfTurn ==
  [][\A h \in ConnIds : CallsAckOrNack(h) => claimOf[h] # None]_vars

C17_WakeIsDroppedNotQueued ==
  /\ [](\A c \in ConnIds : eventChan[c] <= 1)
  /\ [][\A p \in PubIds :
          (/\ NotifyConsumer(p)
           /\ pidx[p] <= Len(consumers[ptopic[p]])
           /\ ~Awaiting(ScanAt(p))) =>
            /\ eventChan' = eventChan
            /\ pc' = pc
            /\ pidx'[p] = pidx[p] + 1]_vars
  /\ [][\A c \in ConnIds :
          /\ NextPark(c) => (pc'[c] = "wait" /\ eventChan' = eventChan)
          /\ Woken(c) =>
                \E p \in PubIds :
                  /\ NotifyConsumer(p)
                  /\ pidx[p] <= Len(consumers[ptopic[p]])
                  /\ ScanAt(p) = c]_vars

(* A Publish sent its wake while the only consumer of the topic was inside *)
(* Next but not yet waiting: the wake is gone, the consumer now waits and  *)
(* the entry is in the queue, unclaimed.                                    *)
C17_Witness ==
  \E h \in ConnIds, p \in PubIds :
    /\ pc[h] = "wait"
    /\ eventChan[h] = 0
    /\ consumers[TopicOf(h)] = <<h>>
    /\ Unclaimed(TopicOf(h)) # <<>>
    /\ ppc[p] = "idle"
    /\ pres[p] = "ok"

(* C18: once a handler has ended, by whatever path, nothing is claimed for *)
(* its consumer: the message it last delivered was committed or returned   *)
(* to the queue. Stated for the endings in which no Ack or Nack called by  *)
(* the handler failed (a disconnect, a decode failure, a failed or         *)
(* cancelled Next), all of which the claim covers.                          *)
C18_NoClaimOutlivesConnection ==
  \A h \in ConnIds :
    (/\ pc[h] = "done"
     /\ log[h] \notin {"failed to nack", "failed to ACK", "failed to NACK"})
      => claimOf[h] = None

(* A notification scan for topic t is in progress; a handler subscribed to *)
(* t is about to fetch.                                                     *)
WakeUnderWay(t) == \E p \in PubIds : ppc[p] = "scan" /\ ptopic[p] = t

FetchUnderWay(t) == \E g \in ConnIds : pc[g] = "next" /\ TopicOf(g) = t

(* C19: no lost wake-up: a consumer is never left waiting in Next while    *)
(* its topic holds an unclaimed entry, unless a wake or a fetch for that   *)
(* topic is still under way. Otherwise no goroutine that is running can    *)
(* end the wait or claim the entry: only further client input (another     *)
(* publish, a command on another connection, a cancellation) can.          *)
C19_NoLostWakeup ==
  \A h \in ConnIds :
    (pc[h] = "wait" /\ Unclaimed(TopicOf(h)) # <<>>) =>
      (WakeUnderWay(TopicOf(h)) \/ FetchUnderWay(TopicOf(h)))

(* The step in which handler a's Nack returns the message claimed for its  *)
(* consumer to the queue: a NACK command, or the implicit Nack of a        *)
(* disconnect.                                                              *)
Requeues(a) ==
  /\ claimOf[a] # None
  /\ claimOf'[a] = None
  /\ NackStep(a) \/ DisconnectStep(a)

(* C20: when A's Nack returns the only entry of a topic to the queue while *)
(* B, which subscribed to the topic after A, is waiting in Next on that    *)
(* topic, B is woken: right after the Nack B has left its wait or a wake   *)
(* for the topic is under way. (A waiting Next is ended only by the send   *)
(* of a scan or by cancellation, so without a wake under way B waits until *)
(* a further Publish.)                                                      *)
C20_RequeuedReachesWaiter ==
  [][\A a, b \in ConnIds, t \in Topics :
       (/\ consumers[t] = <<a, b>>
        /\ Requeues(a)
        /\ TopicEntries(t) = {claimOf[a]}
        /\ pc[b] = "wait") =>
         (pc'[b] # "wait" \/ WakeUnderWay(t)')]_vars

====
